---- MODULE Spec2Model ----
(***************************************************************************)
(* A model of package GoLog (Initialize.go): a LogInstance wraps the file   *)
(* opened by Initialize; printOutPut formats one message and writes it to   *)
(* the log file and/or standard output, and exits the process on a fatal    *)
(* message; generateJSON renders the key/value map.                         *)
(*                                                                          *)
(* Text is modelled as TLA+ strings: one character per byte.  Two bytes     *)
(* have no TLA+ literal and are written with stand-ins: the escape byte     *)
(* 0x1b is the four characters \x1b (it only ever goes to the terminal,     *)
(* where no offset is counted), and the zero byte that fills a hole of a    *)
(* file is ZeroByte.                                                        *)
(***************************************************************************)
EXTENDS Integers, Sequences, FiniteSets, TLC

VARIABLES
    files,        \* the file system: existing path -> content
    instances,    \* the LogInstances created so far: <<[path, offset]>>
    returned,     \* the values the last call returned (an instance, or 0 for nil)
    terminal,     \* everything written to standard output
    running,      \* FALSE once the process has exited
    exitCode,     \* the exit status, once the process has exited
    clock,        \* the wall clock read by time.Now()
    emits,        \* number of calls of printOutPut so far
    call,         \* history: the last call, its arguments and the state before it
    hist,         \* history: the calls that touched a file, in order
    todo,         \* goroutine -> the writes its call of printOutPut has still to do
    args,         \* goroutine -> the arguments of its call in flight
    overlapped    \* history: two calls of printOutPut were in flight at once

vars == <<files, instances, returned, terminal, running, exitCode, clock, emits,
          call, hist, todo, args, overlapped>>

-----------------------------------------------------------------------------
(* Bounds *)

MaxEmits == 2
MaxInstances == 2

-----------------------------------------------------------------------------
(* Constants of the package *)

ESC == "\\x1b"

ColorDefault == ESC \o "[0;0m"
ColorRed == ESC \o "[31;1m"
ColorYellow == ESC \o "[33;1m"

MessageNormal == " [ INFO ] "
MessageFatal == " [ ERRO ] "
MessageWarning == " [ WARN ] "

MessageTypes == {MessageNormal, MessageFatal, MessageWarning}

ZeroByte == "~"

-----------------------------------------------------------------------------
(* Values and their default formatting (package fmt, verb %v) *)

StringValue(s) == [kind |-> "string", s |-> s, n |-> 0, b |-> FALSE]
IntValue(n) == [kind |-> "int", s |-> "", n |-> n, b |-> FALSE]
BoolValue(b) == [kind |-> "bool", s |-> "", n |-> 0, b |-> b]

Digit(d) == SubSeq("0123456789", d + 1, d + 1)

RECURSIVE FormatUint(_)
FormatUint(n) ==
    IF n < 10 THEN Digit(n) ELSE FormatUint(n \div 10) \o Digit(n % 10)

\* strconv.Itoa
Itoa(n) == IF n < 0 THEN "-" \o FormatUint(0 - n) ELSE FormatUint(n)

\* printArg with verb 'v'
printArg(arg) ==
    CASE arg.kind = "string" -> arg.s
      [] arg.kind = "int" -> Itoa(arg.n)
      [] arg.kind = "bool" -> (IF arg.b THEN "true" ELSE "false")

\* fmt.Print / fmt.Fprint: the operands in order, with a space between two
\* operands when neither of them is a string.
RECURSIVE doPrintFrom(_, _)
doPrintFrom(a, argNum) ==
    IF argNum > Len(a) THEN ""
    ELSE (IF /\ argNum > 1
             /\ a[argNum].kind /= "string"
             /\ a[argNum - 1].kind /= "string"
          THEN " " ELSE "")
         \o printArg(a[argNum]) \o doPrintFrom(a, argNum + 1)

doPrint(a) == doPrintFrom(a, 1)

\* fmt.Println / fmt.Fprintln: the operands separated by spaces, then a newline.
RECURSIVE doPrintlnFrom(_, _)
doPrintlnFrom(a, argNum) ==
    IF argNum > Len(a) THEN "\n"
    ELSE (IF argNum > 1 THEN " " ELSE "")
         \o printArg(a[argNum]) \o doPrintlnFrom(a, argNum + 1)

doPrintln(a) == doPrintlnFrom(a, 1)

-----------------------------------------------------------------------------
(* The clock and the time layout "2006-01-02 15:04:05" *)

Pad2(n) == IF n < 10 THEN "0" \o Itoa(n) ELSE Itoa(n)

Pad4(n) ==
    IF n < 10 THEN "000" \o Itoa(n)
    ELSE IF n < 100 THEN "00" \o Itoa(n)
    ELSE IF n < 1000 THEN "0" \o Itoa(n)
    ELSE Itoa(n)

\* getTime.Format("2006-01-02 15:04:05")
Format(t) ==
    Pad4(t.year) \o "-" \o Pad2(t.month) \o "-" \o Pad2(t.day) \o " "
    \o Pad2(t.sec \div 3600) \o ":" \o Pad2((t.sec \div 60) % 60) \o ":"
    \o Pad2(t.sec % 60)

\* getTime.Nanosecond()
Nanosecond(t) == t.nsec

\* The time of the next reading of the clock: the wall clock has moved on by
\* a little less than half a second.
Advance(t) ==
    LET n == t.nsec + 499999877
    IN  [t EXCEPT !.sec = (t.sec + n \div 1000000000) % 86400,
                  !.nsec = n % 1000000000]

StartTime == [year |-> 2023, month |-> 9, day |-> 7, sec |-> 35999, nsec |-> 7000042]

\* messagePrefix of printOutPut
messagePrefix(getTime, messageType) ==
    LET generateLongTime == Format(getTime)
        generatedTimeMillSeconds == Nanosecond(getTime) \div 1000000
        generatedTimeNanoSeconds == Nanosecond(getTime)
        generatedTime == generateLongTime \o ":"
                         \o Itoa(generatedTimeMillSeconds) \o ":"
                         \o Itoa(generatedTimeNanoSeconds)
    IN  generatedTime \o messageType

-----------------------------------------------------------------------------
(* The writes of one call: each is one call of a print function, i.e. one   *)
(* write to the log file's descriptor or to standard output.                *)

Write(sink, text) == [sink |-> sink, text |-> text]

\* A map[string]interface{}: nil, or a function from its keys to values.
NilMap == [isNil |-> TRUE, kv |-> <<>>]
Map(kv) == [isNil |-> FALSE, kv |-> kv]

\* The orders in which range may visit the keys of a map.
Orders(jsonData) ==
    LET keys == DOMAIN jsonData.kv
    IN  {o \in [1..Cardinality(keys) -> keys] :
            \A i, j \in 1..Cardinality(keys) : i /= j => o[i] /= o[j]}

\* The body of the range loop of generateJSON, for the keys from position i on.
RECURSIVE generateJSONEntries(_, _, _, _, _)
generateJSONEntries(needFileOutPut, needTerminalOutput, jsonData, order, i) ==
    IF i > Len(order) THEN <<>>
    ELSE LET jsonKey == order[i]
             jsonValue == jsonData.kv[jsonKey]
             text == doPrint(<<StringValue(" ("), StringValue(jsonKey),
                              StringValue(": "), jsonValue, StringValue(")")>>)
         IN  (IF needFileOutPut THEN <<Write("file", text)>> ELSE <<>>)
             \o (IF needTerminalOutput THEN <<Write("terminal", text)>> ELSE <<>>)
             \o generateJSONEntries(needFileOutPut, needTerminalOutput,
                                    jsonData, order, i + 1)

\* generateJSON with the opening bracket printed to the terminal whichever
\* sink was asked for.
generateJSON_OpensOnTerminal(needFileOutPut, needTerminalOutput, jsonData, order) ==
    (IF needFileOutPut THEN <<Write("file", " [")>> ELSE <<>>)
    \o (IF needFileOutPut \/ needTerminalOutput
        THEN <<Write("terminal", " [")>> ELSE <<>>)
    \o generateJSONEntries(needFileOutPut, needTerminalOutput, jsonData, order, 1)
    \o (IF needFileOutPut THEN <<Write("file", " ]")>> ELSE <<>>)
    \o (IF needTerminalOutput THEN <<Write("terminal", " ]")>> ELSE <<>>)

generateJSON(needFileOutPut, needTerminalOutput, jsonData, order) ==
    (IF needFileOutPut THEN <<Write("file", " [")>> ELSE <<>>)
    \o (IF needTerminalOutput THEN <<Write("terminal", " [")>> ELSE <<>>)
    \o generateJSONEntries(needFileOutPut, needTerminalOutput, jsonData, order, 1)
    \o (IF needFileOutPut THEN <<Write("file", " ]")>> ELSE <<>>)
    \o (IF needTerminalOutput THEN <<Write("terminal", " ]")>> ELSE <<>>)

\* The switch with the colours of fatal and warning exchanged.
colorCode_Exchanged(messageType) ==
    CASE messageType = MessageNormal -> ColorDefault
      [] messageType = MessageFatal -> ColorYellow
      [] messageType = MessageWarning -> ColorRed
      [] OTHER -> ""

\* The switch of printOutPut on the message type.
colorCode(messageType) ==
    CASE messageType = MessageNormal -> ColorDefault
      [] messageType = MessageFatal -> ColorRed
      [] messageType = MessageWarning -> ColorYellow
      [] OTHER -> ""

\* The writes to the log file with the parts printed by Fprintln.
printToFile_Fprintln(messagePrefixText, jsonContent, messageContent, orderFile) ==
    <<Write("file", doPrint(<<StringValue(messagePrefixText)>>)),
      Write("file", doPrintln(messageContent))>>
    \o (IF ~jsonContent.isNil
        THEN generateJSON(TRUE, FALSE, jsonContent, orderFile)
        ELSE <<>>)
    \o <<Write("file", doPrintln(<<>>))>>

\* The writes to the log file with the newline printed before the map.
printToFile_NewlineFirst(messagePrefixText, jsonContent, messageContent, orderFile) ==
    <<Write("file", doPrint(<<StringValue(messagePrefixText)>>)),
      Write("file", doPrint(messageContent)),
      Write("file", doPrintln(<<>>))>>
    \o (IF ~jsonContent.isNil
        THEN generateJSON(TRUE, FALSE, jsonContent, orderFile)
        ELSE <<>>)

\* The writes to the log file without the final Fprintln.
printToFile_NoNewline(messagePrefixText, jsonContent, messageContent, orderFile) ==
    <<Write("file", doPrint(<<StringValue(messagePrefixText)>>)),
      Write("file", doPrint(messageContent))>>
    \o (IF ~jsonContent.isNil
        THEN generateJSON(TRUE, FALSE, jsonContent, orderFile)
        ELSE <<>>)

\* Lines 75-84 of printOutPut: the writes to the log file.
printToFile(messagePrefixText, jsonContent, messageContent, orderFile) ==
    <<Write("file", doPrint(<<StringValue(messagePrefixText)>>)),
      Write("file", doPrint(messageContent))>>
    \o (IF ~jsonContent.isNil
        THEN generateJSON(TRUE, FALSE, jsonContent, orderFile)
        ELSE <<>>)
    \o <<Write("file", doPrintln(<<>>))>>

\* Lines 88-109 of printOutPut: the coloured writes to the terminal.
printToTerminalColored(messageType, messagePrefixText, jsonContent, messageContent, orderTerminal) ==
    <<Write("terminal", doPrint(<<StringValue(colorCode(messageType)),
                                  StringValue(messagePrefixText)>>)),
      Write("terminal", doPrint(messageContent))>>
    \o (IF ~jsonContent.isNil
        THEN generateJSON(FALSE, TRUE, jsonContent, orderTerminal)
        ELSE <<>>)
    \o <<Write("terminal", doPrintln(<<StringValue(ColorDefault)>>))>>

\* The plain writes to the terminal ended like the coloured ones.
printToTerminal_Reset(messagePrefixText, jsonContent, messageContent, orderTerminal) ==
    <<Write("terminal", doPrint(<<StringValue(messagePrefixText)>>)),
      Write("terminal", doPrint(messageContent))>>
    \o (IF ~jsonContent.isNil
        THEN generateJSON(FALSE, TRUE, jsonContent, orderTerminal)
        ELSE <<>>)
    \o <<Write("terminal", doPrintln(<<StringValue(ColorDefault)>>))>>

\* Lines 110-119 of printOutPut: the plain writes to the terminal.
printToTerminal(messagePrefixText, jsonContent, messageContent, orderTerminal) ==
    <<Write("terminal", doPrint(<<StringValue(messagePrefixText)>>)),
      Write("terminal", doPrint(messageContent))>>
    \o (IF ~jsonContent.isNil
        THEN generateJSON(FALSE, TRUE, jsonContent, orderTerminal)
        ELSE <<>>)
    \o <<Write("terminal", doPrintln(<<>>))>>

\* The branch taken when the first test forgets needTerminalOutput.
terminalBranch_ColourAlone(needTerminalOutput, needTerminalColoredOutput) ==
    IF needTerminalColoredOutput THEN "colored"
    ELSE IF needTerminalOutput THEN "plain"
    ELSE "none"

\* The branch the if / else if of lines 88 and 110 takes.
terminalBranch(needTerminalOutput, needTerminalColoredOutput) ==
    IF needTerminalOutput /\ needTerminalColoredOutput THEN "colored"
    ELSE IF needTerminalOutput THEN "plain"
    ELSE "none"

\* The writes of printOutPut, in the order the code makes them.  orderFile and
\* orderTerminal are the orders in which the two calls of generateJSON happen
\* to visit the keys.
printOutPut(needFileOutput, needTerminalOutput, needTerminalColoredOutput, messageType, jsonContent, messageContent, getTime, orderFile, orderTerminal) ==
    LET prefix == messagePrefix(getTime, messageType)
        branch == terminalBranch(needTerminalOutput, needTerminalColoredOutput)
    IN  (IF needFileOutput
         THEN printToFile(prefix, jsonContent, messageContent, orderFile)
         ELSE <<>>)
        \o
        (CASE branch = "colored" ->
                printToTerminalColored(messageType, prefix, jsonContent,
                                       messageContent, orderTerminal)
           [] branch = "plain" ->
                printToTerminal(prefix, jsonContent, messageContent,
                                orderTerminal)
           [] OTHER -> <<>>)

\* The test before os.Exit(1) against the wrong message type.
exitsIfFatal_Warning(messageType) == messageType = MessageWarning

\* The test before os.Exit(1).
exitsIfFatal(messageType) == messageType = MessageFatal

-----------------------------------------------------------------------------
(* The file system and the standard output *)

RECURSIVE Zeros(_)
Zeros(n) ==
    IF n <= 0 THEN ""
    ELSE IF n = 1 THEN ZeroByte
    ELSE LET half == Zeros(n \div 2)
         IN  half \o half \o (IF n % 2 = 1 THEN ZeroByte ELSE "")

\* write(2) of text at the offset of a descriptor opened without O_APPEND: the
\* bytes replace what is at the offset, a gap beyond the end reads as zero
\* bytes, and a write of no bytes changes nothing.
WriteAt(content, offset, text) ==
    IF text = "" THEN content
    ELSE LET padded == IF offset > Len(content)
                       THEN content \o Zeros(offset - Len(content))
                       ELSE content
         IN  SubSeq(padded, 1, offset) \o text
             \o SubSeq(padded, offset + Len(text) + 1, Len(padded))

\* One print call of logInstance inst: fmt.Fprint(logInstance.logDestination, ..)
\* writes at the offset of the instance's descriptor and moves it; fmt.Print
\* appends to standard output.
DoWrite(st, inst, w) ==
    IF w.sink = "file"
    THEN LET h == st.instances[inst]
         IN  [st EXCEPT
                !.files[h.path] = WriteAt(st.files[h.path], h.offset, w.text),
                !.instances[inst].offset = h.offset + Len(w.text)]
    ELSE [st EXCEPT !.terminal = st.terminal \o w.text]

RECURSIVE DoWrites(_, _, _)
DoWrites(st, inst, ws) ==
    IF ws = <<>> THEN st ELSE DoWrites(DoWrite(st, inst, Head(ws)), inst, Tail(ws))

\* The paths the callers use, and the ones os.Create can create: the
\* directory of the other one does not exist.
Paths == {"app.log", "missing/app.log"}
Creatable == {"app.log"}

\* Initialize without the test of openError.
openError_Ignored(logDestination) == FALSE

openError(logDestination) == logDestination \notin Creatable

\* os.OpenFile without O_TRUNC: an existing file keeps its content.
Create_NoTruncate(fs, logDestination) ==
    [p \in DOMAIN fs \cup {logDestination} |->
        IF p \in DOMAIN fs THEN fs[p] ELSE ""]

\* os.Create: O_RDWR|O_CREATE|O_TRUNC, the descriptor starts at offset 0.
Create(fs, logDestination) ==
    [p \in DOMAIN fs \cup {logDestination} |->
        IF p = logDestination THEN "" ELSE fs[p]]

-----------------------------------------------------------------------------
(* The calls the callers make *)

Abc == <<StringValue("a"), IntValue(1), BoolValue(TRUE)>>
Numbers == <<IntValue(-3), StringValue("m"), IntValue(4), IntValue(50)>>

X1 == Map("x" :> IntValue(1))
XY == Map(("x" :> IntValue(1)) @@ ("y" :> BoolValue(TRUE)))

Call(needFileOutput, needTerminalOutput, needTerminalColoredOutput, messageType, jsonContent, messageContent) ==
    [needFileOutput |-> needFileOutput,
     needTerminalOutput |-> needTerminalOutput,
     needTerminalColoredOutput |-> needTerminalColoredOutput,
     messageType |-> messageType, jsonContent |-> jsonContent,
     messageContent |-> messageContent]

\* The calls after which the process goes on: one for every combination of
\* the three flags, normal and warning, without a map and with one.
ReturningCalls ==
    { Call(FALSE, FALSE, FALSE, MessageNormal, NilMap, Abc),
      Call(FALSE, FALSE, TRUE, MessageWarning, X1, Abc),
      Call(TRUE, FALSE, FALSE, MessageNormal, NilMap, Abc),
      Call(TRUE, FALSE, TRUE, MessageWarning, X1, Numbers),
      Call(FALSE, TRUE, FALSE, MessageNormal, Map(<<>>), <<>>),
      Call(FALSE, TRUE, TRUE, MessageWarning, X1, Abc),
      Call(TRUE, TRUE, FALSE, MessageWarning, NilMap, Numbers),
      Call(TRUE, TRUE, TRUE, MessageNormal, X1, Abc) }

\* The fatal calls: every combination of the three flags with every shape
\* of map.
FatalCalls ==
    [needFileOutput : BOOLEAN, needTerminalOutput : BOOLEAN,
     needTerminalColoredOutput : BOOLEAN, messageType : {MessageFatal},
     jsonContent : {NilMap, X1}, messageContent : {Abc}]
    \cup
    [needFileOutput : BOOLEAN, needTerminalOutput : BOOLEAN,
     needTerminalColoredOutput : BOOLEAN, messageType : {MessageFatal},
     jsonContent : {Map(<<>>)}, messageContent : {<<>>}]
    \cup
    [needFileOutput : BOOLEAN, needTerminalOutput : BOOLEAN,
     needTerminalColoredOutput : BOOLEAN, messageType : {MessageFatal},
     jsonContent : {XY}, messageContent : {Numbers}]

Calls == ReturningCalls \cup FatalCalls

\* The calls two goroutines make at the same time.
ConcurrentCalls ==
    [needFileOutput : {TRUE}, needTerminalOutput : {FALSE},
     needTerminalColoredOutput : {FALSE},
     messageType : {MessageNormal, MessageFatal},
     jsonContent : {NilMap, X1}, messageContent : {Abc}]

Goroutines == {"g1", "g2"}

Idle == [op |-> "idle"]

NoCall == [op |-> "none"]

-----------------------------------------------------------------------------
(* Initial state: the process has started, no LogInstance exists, and the   *)
(* log file is left over from an earlier run.                               *)

Init ==
    /\ files = ("app.log" :> "old run\n")
    /\ instances = <<>>
    /\ returned = <<>>
    /\ terminal = ""
    /\ running = TRUE
    /\ exitCode = 0
    /\ clock = StartTime
    /\ emits = 0
    /\ call = NoCall
    /\ hist = <<>>
    /\ todo = [g \in Goroutines |-> <<>>]
    /\ args = [g \in Goroutines |-> Idle]
    /\ overlapped = FALSE

-----------------------------------------------------------------------------
(* Initialize *)

InitializeFails(logDestination) ==
    /\ running
    /\ openError(logDestination)
    /\ returned' = <<0>>
    /\ call' = [op |-> "Initialize", path |-> logDestination,
                filesBefore |-> files, instancesBefore |-> instances]
    /\ UNCHANGED <<files, instances, terminal, running, exitCode, clock, emits,
                   hist, todo, args, overlapped>>

InitializeOpens(logDestination) ==
    /\ running
    /\ ~openError(logDestination)
    /\ Len(instances) < MaxInstances
    /\ files' = Create(files, logDestination)
    /\ instances' = Append(instances, [path |-> logDestination, offset |-> 0])
    /\ returned' = <<Len(instances) + 1>>
    /\ call' = [op |-> "Initialize", path |-> logDestination,
                filesBefore |-> files, instancesBefore |-> instances]
    /\ hist' = Append(hist, [op |-> "Initialize", inst |-> Len(instances) + 1,
                             path |-> logDestination])
    /\ UNCHANGED <<terminal, running, exitCode, clock, emits, todo, args,
                   overlapped>>

Initialize(logDestination) ==
    \/ InitializeFails(logDestination)
    \/ InitializeOpens(logDestination)

-----------------------------------------------------------------------------
(* printOutPut, called by one caller at a time: the whole call is one step. *)

\* The record of a call: its receiver and arguments, the time it read, and
\* the orders in which its calls of generateJSON visited the keys (<<>> for
\* a call of generateJSON that was not made).
CallRecord(inst, c, getTime, orderFile, orderTerminal) ==
    [op |-> "printOutPut", inst |-> inst,
     needFileOutput |-> c.needFileOutput,
     needTerminalOutput |-> c.needTerminalOutput,
     needTerminalColoredOutput |-> c.needTerminalColoredOutput,
     messageType |-> c.messageType, jsonContent |-> c.jsonContent,
     messageContent |-> c.messageContent, getTime |-> getTime,
     orderFile |-> IF c.needFileOutput THEN orderFile ELSE <<>>,
     orderTerminal |-> IF c.needTerminalOutput THEN orderTerminal ELSE <<>>]

\* The orders to choose from: one only when the map is not iterated.
OrdersIf(used, jsonContent) ==
    IF used THEN Orders(jsonContent)
    ELSE {CHOOSE o \in Orders(jsonContent) : TRUE}

\* The receiver is an instance that Initialize returned: callers test the
\* result of Initialize for nil before they log.
Emit(inst, c) ==
    /\ running
    /\ inst \in 1..Len(instances)
    /\ emits < MaxEmits
    /\ \A g \in Goroutines : args[g] = Idle
    /\ \E orderFile \in OrdersIf(c.needFileOutput, c.jsonContent),
          orderTerminal \in OrdersIf(c.needTerminalOutput, c.jsonContent) :
       \E st \in {DoWrites([files |-> files, instances |-> instances,
                            terminal |-> terminal], inst,
                           printOutPut(c.needFileOutput, c.needTerminalOutput,
                                       c.needTerminalColoredOutput,
                                       c.messageType, c.jsonContent,
                                       c.messageContent, clock,
                                       orderFile, orderTerminal))} :
       \E r \in {CallRecord(inst, c, clock, orderFile, orderTerminal)} :
            /\ files' = st.files
            /\ instances' = st.instances
            /\ terminal' = st.terminal
            /\ call' = [r EXCEPT !.op = "printOutPut"]
                       @@ [filesBefore |-> files, terminalBefore |-> terminal,
                           instancesBefore |-> instances]
            /\ hist' = IF c.needFileOutput THEN Append(hist, r) ELSE hist
    /\ clock' = Advance(clock)
    /\ emits' = emits + 1
    /\ returned' = <<>>
    /\ IF exitsIfFatal(c.messageType)
       THEN running' = FALSE /\ exitCode' = 1
       ELSE UNCHANGED <<running, exitCode>>
    /\ UNCHANGED <<todo, args, overlapped>>

Next ==
    \/ \E logDestination \in Paths : Initialize(logDestination)
    \/ \E inst \in 1..MaxInstances, c \in Calls : Emit(inst, c)

Spec == Init /\ [][Next]_vars

-----------------------------------------------------------------------------
(* printOutPut, called by two goroutines on the same LogInstance with no    *)
(* lock: each print call of the body is one step.                           *)

\* A goroutine enters printOutPut: it reads the clock and builds the prefix.
Begin(g, inst, c) ==
    /\ running
    /\ inst \in 1..Len(instances)
    /\ emits < MaxEmits
    /\ args[g] = Idle
    /\ \E orderFile \in OrdersIf(c.needFileOutput, c.jsonContent),
          orderTerminal \in OrdersIf(c.needTerminalOutput, c.jsonContent) :
       \E r \in {CallRecord(inst, c, clock, orderFile, orderTerminal)} :
            /\ args' = [args EXCEPT ![g] = r]
            /\ todo' = [todo EXCEPT ![g] =
                    printOutPut(c.needFileOutput, c.needTerminalOutput,
                                c.needTerminalColoredOutput, c.messageType,
                                c.jsonContent, c.messageContent, clock,
                                orderFile, orderTerminal)]
            /\ hist' = IF c.needFileOutput THEN Append(hist, r) ELSE hist
    /\ overlapped' = (overlapped \/ \E h \in Goroutines \ {g} : args[h] /= Idle)
    /\ clock' = Advance(clock)
    /\ emits' = emits + 1
    /\ UNCHANGED <<files, instances, returned, terminal, running, exitCode, call>>

\* The goroutine makes its next print call.
Step(g) ==
    /\ running
    /\ args[g] /= Idle
    /\ todo[g] /= <<>>
    /\ \E st \in {DoWrite([files |-> files, instances |-> instances,
                           terminal |-> terminal], args[g].inst, Head(todo[g]))} :
            /\ files' = st.files
            /\ instances' = st.instances
            /\ terminal' = st.terminal
    /\ todo' = [todo EXCEPT ![g] = Tail(todo[g])]
    /\ UNCHANGED <<returned, running, exitCode, clock, emits, call, hist, args,
                   overlapped>>

\* The goroutine reaches the end of printOutPut: os.Exit(1) if fatal.
Return(g) ==
    /\ running
    /\ args[g] /= Idle
    /\ todo[g] = <<>>
    /\ args' = [args EXCEPT ![g] = Idle]
    /\ returned' = <<>>
    /\ IF exitsIfFatal(args[g].messageType)
       THEN running' = FALSE /\ exitCode' = 1
       ELSE UNCHANGED <<running, exitCode>>
    /\ UNCHANGED <<files, instances, terminal, clock, emits, call, hist, todo,
                   overlapped>>

\* The goroutines start once the LogInstance they share has been created.
InitConcurrent ==
    /\ files = ("app.log" :> "")
    /\ instances = <<[path |-> "app.log", offset |-> 0]>>
    /\ returned = <<1>>
    /\ terminal = ""
    /\ running = TRUE
    /\ exitCode = 0
    /\ clock = StartTime
    /\ emits = 0
    /\ call = [op |-> "Initialize", path |-> "app.log",
               filesBefore |-> ("app.log" :> "old run\n"),
               instancesBefore |-> <<>>]
    /\ hist = <<[op |-> "Initialize", inst |-> 1, path |-> "app.log"]>>
    /\ todo = [g \in Goroutines |-> <<>>]
    /\ args = [g \in Goroutines |-> Idle]
    /\ overlapped = FALSE

NextConcurrent ==
    \/ \E g \in Goroutines, inst \in 1..MaxInstances, c \in ConcurrentCalls :
            Begin(g, inst, c)
    \/ \E g \in Goroutines : Step(g)
    \/ \E g \in Goroutines : Return(g)

SpecConcurrent == InitConcurrent /\ [][NextConcurrent]_vars

-----------------------------------------------------------------------------
(* What the specification says a call writes, stated from its arguments.    *)

\* The parts one after the other, each in its default form, nothing between.
RECURSIVE PartsNoSeparator(_)
PartsNoSeparator(parts) ==
    IF parts = <<>> THEN ""
    ELSE printArg(Head(parts)) \o PartsNoSeparator(Tail(parts))

\* The parts one after the other, with one space between two neighbours
\* exactly when neither of them is a string.
RECURSIVE PartsSpaced(_)
PartsSpaced(parts) ==
    IF parts = <<>> THEN ""
    ELSE IF Len(parts) = 1 THEN printArg(parts[1])
    ELSE LET front == SubSeq(parts, 1, Len(parts) - 1)
             last == parts[Len(parts)]
             gap == IF last.kind = "string" \/ parts[Len(parts) - 1].kind = "string"
                    THEN "" ELSE " "
         IN  PartsSpaced(front) \o gap \o printArg(last)

\* " (key: value)" for each key of the order.
RECURSIVE RenderedEntries(_, _)
RenderedEntries(data, order) ==
    IF order = <<>> THEN ""
    ELSE " (" \o Head(order) \o ": " \o printArg(data.kv[Head(order)]) \o ")"
         \o RenderedEntries(data, Tail(order))

\* " [ (k1: v1) (k2: v2) ]", or nothing when there is no map.
RenderedData(data, order) ==
    IF data.isNil THEN "" ELSE " [" \o RenderedEntries(data, order) \o " ]"

\* The orders that name every key of the map exactly once.
EachKeyOnce(data) ==
    {o \in UNION {[1..n -> DOMAIN data.kv] : n \in 0..Cardinality(DOMAIN data.kv)} :
        \A k \in DOMAIN data.kv : Cardinality({i \in DOMAIN o : o[i] = k}) = 1}

SeverityColor(messageType) ==
    IF messageType = " [ INFO ] " THEN "\\x1b[0;0m"
    ELSE IF messageType = " [ ERRO ] " THEN "\\x1b[31;1m"
    ELSE "\\x1b[33;1m"

AnsiSequences == {"\\x1b[0;0m", "\\x1b[31;1m", "\\x1b[33;1m"}

Contains(text, part) ==
    \E i \in 1..(Len(text) - Len(part) + 1) :
        SubSeq(text, i, i + Len(part) - 1) = part

EndsWith(text, part) ==
    /\ Len(text) >= Len(part)
    /\ SubSeq(text, Len(text) - Len(part) + 1, Len(text)) = part

CountLines(text) == Cardinality({i \in 1..Len(text) : SubSeq(text, i, i) = "\n"})

IsEmit == call.op = "printOutPut"

PathOf(c) == c.instancesBefore[c.inst].path
OffsetOf(c) == c.instancesBefore[c.inst].offset

\* The record of a call in the file: prefix, parts, rendered data, newline.
FileRecord(c) ==
    messagePrefix(c.getTime, c.messageType) \o doPrint(c.messageContent)
    \o RenderedData(c.jsonContent, c.orderFile) \o "\n"

\* The file system after the call has written its record, if it writes one.
FilesAfter(c) ==
    IF c.needFileOutput
    THEN [c.filesBefore EXCEPT
            ![PathOf(c)] = WriteAt(c.filesBefore[PathOf(c)], OffsetOf(c),
                                   FileRecord(c))]
    ELSE c.filesBefore

ColoredRecord(c) ==
    SeverityColor(c.messageType)
    \o messagePrefix(c.getTime, c.messageType) \o doPrint(c.messageContent)
    \o RenderedData(c.jsonContent, c.orderTerminal) \o "\\x1b[0;0m" \o "\n"

PlainRecord(c) ==
    messagePrefix(c.getTime, c.messageType) \o doPrint(c.messageContent)
    \o RenderedData(c.jsonContent, c.orderTerminal) \o "\n"

\* The standard output after the call.
TerminalAfter(c) ==
    c.terminalBefore
    \o (IF ~c.needTerminalOutput THEN ""
        ELSE IF c.needTerminalColoredOutput THEN ColoredRecord(c)
        ELSE PlainRecord(c))

\* What the call added to the standard output.
TerminalAdded == SubSeq(terminal, Len(call.terminalBefore) + 1, Len(terminal))

\* The instance of the call is the only one opened on its file.
OnlyInstance(c) ==
    \A j \in 1..Len(c.instancesBefore) :
        j /= c.inst => c.instancesBefore[j].path /= PathOf(c)

-----------------------------------------------------------------------------
(* Claims *)

\* C1: a call of printOutPut with the fatal message type ends the process
\* with exit status 1, whatever the flags and the map, after the file and
\* the terminal have received everything the call was asked to write; and no
\* step is taken once the process has exited.
C1_FatalExitsAfterWrites ==
    /\ [](IsEmit /\ call.messageType = " [ ERRO ] " =>
            /\ ~running
            /\ exitCode = 1
            /\ files = FilesAfter(call)
            /\ terminal = TerminalAfter(call))
    /\ [][running]_vars

C1_Witness ==
    /\ IsEmit
    /\ call.messageType = MessageFatal
    /\ call.needFileOutput /\ call.needTerminalOutput
    /\ ~call.jsonContent.isNil
    /\ ~running /\ exitCode = 1
    /\ files /= call.filesBefore
    /\ terminal /= call.terminalBefore

RecordsOf(i) == SelectSeq(hist, LAMBDA h : h.op = "printOutPut" /\ h.inst = i)

\* The position in hist of the call of Initialize that made instance i.
OpenedAt(i) ==
    CHOOSE k \in 1..Len(hist) : hist[k].op = "Initialize" /\ hist[k].inst = i

\* Since instance i was made, only instance i has touched its file.
Undisturbed(i) ==
    \A k \in (OpenedAt(i) + 1)..Len(hist) :
        \/ hist[k].op = "printOutPut" /\ hist[k].inst = i
        \/ hist[k].op = "printOutPut"
           /\ instances[hist[k].inst].path /= instances[i].path
        \/ hist[k].op = "Initialize" /\ hist[k].path /= instances[i].path

RECURSIVE ConcatRecords(_)
ConcatRecords(hs) ==
    IF hs = <<>> THEN "" ELSE FileRecord(Head(hs)) \o ConcatRecords(Tail(hs))

\* C3: after n calls with needFileOutput on one LogInstance, made one after
\* the other, the file holds n records in call order, each the prefix, the
\* parts, the rendered map if there is one, and a newline.
C3_RecordsInCallOrder ==
    \A i \in 1..Len(instances) :
        Undisturbed(i) =>
            /\ files[instances[i].path] = ConcatRecords(RecordsOf(i))
            /\ CountLines(files[instances[i].path]) = Len(RecordsOf(i))

C3_Witness ==
    \E i \in 1..Len(instances) :
        /\ Undisturbed(i)
        /\ Len(RecordsOf(i)) = MaxEmits
        /\ \E a, b \in 1..Len(RecordsOf(i)) :
                /\ RecordsOf(i)[a].jsonContent.isNil
                /\ ~RecordsOf(i)[b].jsonContent.isNil
        /\ files[instances[i].path] = ConcatRecords(RecordsOf(i))

\* C4: a coloured call writes to the terminal the colour of the message type
\* (default for normal, red for fatal, yellow for warning), the prefix, the
\* parts, the rendered map if there is one, the reset code and a newline.
C4_ColoredTerminalRecord ==
    IsEmit /\ call.needTerminalOutput /\ call.needTerminalColoredOutput =>
        /\ terminal = call.terminalBefore \o ColoredRecord(call)
        /\ EndsWith(terminal, "\\x1b[0;0m\n")

C4_Witness ==
    /\ IsEmit
    /\ call.needTerminalOutput /\ call.needTerminalColoredOutput
    /\ call.messageType = MessageWarning
    /\ ~call.jsonContent.isNil
    /\ terminal = call.terminalBefore \o ColoredRecord(call)
    /\ call.terminalBefore /= ""

\* C5: a call without colour writes to the terminal the prefix, the parts,
\* the rendered map if there is one and a newline, and none of the three
\* ANSI sequences, whatever the message type.
C5_PlainTerminalRecord ==
    IsEmit /\ call.needTerminalOutput /\ ~call.needTerminalColoredOutput =>
        /\ terminal = call.terminalBefore \o PlainRecord(call)
        /\ \A code \in AnsiSequences : ~Contains(TerminalAdded, code)

C5_Witness ==
    /\ IsEmit
    /\ call.needTerminalOutput /\ ~call.needTerminalColoredOutput
    /\ call.messageType = MessageFatal
    /\ ~call.jsonContent.isNil
    /\ TerminalAdded = PlainRecord(call)
    /\ ~Contains(TerminalAdded, ESC)

\* C6: a call leaves the files alone when needFileOutput is false and the
\* terminal alone when needTerminalOutput is false, whatever the colour flag
\* and the map; and no colour code ever reaches a file.
C6_SinkFlagsIndependent ==
    /\ IsEmit /\ ~call.needFileOutput => files = call.filesBefore
    /\ IsEmit /\ ~call.needTerminalOutput => terminal = call.terminalBefore
    /\ \A p \in DOMAIN files : ~Contains(files[p], ESC)

C6_Witness ==
    /\ IsEmit
    /\ ~call.needFileOutput /\ ~call.needTerminalOutput
    /\ call.needTerminalColoredOutput
    /\ ~call.jsonContent.isNil
    /\ call.filesBefore[PathOf(call)] /= ""
    /\ call.terminalBefore /= ""
    /\ files = call.filesBefore
    /\ terminal = call.terminalBefore

\* The text of a call between the parts and the newline, for the keys in order o.
Bracketed(c, o) == " [" \o RenderedEntries(c.jsonContent, o) \o " ]"

\* C7: the rendering of a map on a sink is " [", one " (key: value)" for
\* every entry, each exactly once and in any order, then " ]"; it is " [ ]"
\* for an empty map and " [ (x: 1) ]" for {"x": 1}; and it reaches only the
\* sink it was made for.
C7_RenderedMapShape ==
    IsEmit /\ ~call.jsonContent.isNil =>
        /\ \E o \in EachKeyOnce(call.jsonContent) :
              files =
                IF call.needFileOutput
                THEN [call.filesBefore EXCEPT ![PathOf(call)] =
                        WriteAt(@, OffsetOf(call),
                                messagePrefix(call.getTime, call.messageType)
                                \o doPrint(call.messageContent)
                                \o Bracketed(call, o) \o "\n")]
                ELSE call.filesBefore
        /\ \E o \in EachKeyOnce(call.jsonContent) :
              TerminalAdded =
                IF ~call.needTerminalOutput THEN ""
                ELSE (IF call.needTerminalColoredOutput
                      THEN SeverityColor(call.messageType) ELSE "")
                     \o messagePrefix(call.getTime, call.messageType)
                     \o doPrint(call.messageContent)
                     \o Bracketed(call, o)
                     \o (IF call.needTerminalColoredOutput
                         THEN "\\x1b[0;0m" ELSE "")
                     \o "\n"
        /\ call.jsonContent.kv = <<>> /\ call.needTerminalOutput
           /\ ~call.needTerminalColoredOutput => EndsWith(terminal, " [ ]\n")
        /\ call.jsonContent.kv = <<>> /\ call.needFileOutput
           /\ OnlyInstance(call) => EndsWith(files[PathOf(call)], " [ ]\n")
        /\ call.jsonContent = X1 /\ call.needTerminalOutput
           /\ ~call.needTerminalColoredOutput =>
                EndsWith(terminal, " [ (x: 1) ]\n")
        /\ call.jsonContent = X1 /\ call.needFileOutput
           /\ OnlyInstance(call) =>
                EndsWith(files[PathOf(call)], " [ (x: 1) ]\n")

C7_Witness ==
    /\ IsEmit
    /\ call.jsonContent = XY
    /\ call.needFileOutput /\ call.needTerminalOutput
    /\ call.orderFile /= call.orderTerminal
    /\ EndsWith(files[PathOf(call)], " [ (y: true) (x: 1) ]\n")
    /\ EndsWith(terminal, " [ (x: 1) (y: true) ]\n")

C9_InitializeTruncates ==
    call.op = "Initialize" /\ returned /= <<0>> =>
        /\ files[call.path] = ""
        /\ instances[Head(returned)].offset = 0

C9_Witness ==
    /\ call.op = "Initialize"
    /\ returned = <<MaxInstances>>
    /\ \E i \in 1..Len(call.instancesBefore) :
            /\ Len(RecordsOf(i)) >= 1
            /\ call.instancesBefore[i].path = call.path
    /\ CountLines(call.filesBefore[call.path]) >= 1
    /\ call.filesBefore[call.path] /= "old run\n"
    /\ files[call.path] = ""

\* C10: when the calls of two goroutines on one LogInstance do not overlap,
\* the file holds their records whole, one per line and in call order; when
\* they overlap, the pieces of the two records can be mixed in the file.
C10_SerializedCallsKeepRecordsWhole ==
    ~overlapped /\ (\A g \in Goroutines : args[g] = Idle) =>
        \A i \in 1..Len(instances) :
            /\ files[instances[i].path] = ConcatRecords(RecordsOf(i))
            /\ CountLines(files[instances[i].path]) = Len(RecordsOf(i))

C10_Witness ==
    /\ overlapped
    /\ \A g \in Goroutines : args[g] = Idle
    /\ Len(RecordsOf(1)) = 2
    /\ Len(files["app.log"]) =
            Len(FileRecord(RecordsOf(1)[1])) + Len(FileRecord(RecordsOf(1)[2]))
    /\ files["app.log"] /= ConcatRecords(RecordsOf(1))
    /\ files["app.log"] /= FileRecord(RecordsOf(1)[2]) \o FileRecord(RecordsOf(1)[1])
    /\ \A k \in 1..2 :
            SubSeq(files["app.log"], 1, Len(FileRecord(RecordsOf(1)[k])))
                /= FileRecord(RecordsOf(1)[k])

====
